---- MODULE Spec2Model ----
(***************************************************************************)
(* Model of api/app.py: the OpenAI chat relay.                             *)
(*                                                                         *)
(* POST /api/chat validates the body against ChatRequest, builds an        *)
(* OpenAI client with the caller's key, probes MODEL_CANDIDATES in order   *)
(* until one answers, then returns a StreamingResponse whose generator     *)
(* opens the streaming completion and yields the content deltas.           *)
(* GET /api/health returns a constant.                                     *)
(*                                                                         *)
(* The upstream provider is the environment: every reply it gives (a       *)
(* probe's success or error text, the stream's chunks, its end or its      *)
(* failure) is an input chosen by the actions' \E.  One action is one      *)
(* stretch of handler code between two upstream interactions.              *)
(***************************************************************************)
EXTENDS Naturals, Sequences, FiniteSets, TLC

VARIABLES
    req,      \* request id -> the state of that POST /api/chat request
    health    \* what GET /api/health has answered, and the calls it made

vars == <<req, health>>

(***************************************************************************)
(* Bounds of the model.                                                    *)
(***************************************************************************)
MaxChunks == 3        \* chunks one upstream stream delivers (Spec, SpecPair)
MaxWords == 2         \* words in a generated error text (SpecTotalFailure)
MaxHealth == 2        \* health checks answered in one behaviour
MaxConcChunks == 1    \* chunks per stream when two requests interleave

(***************************************************************************)
(* Values.  Python's None and a JSON field that is absent are sentinels    *)
(* that no string of the data sets equals.                                 *)
(***************************************************************************)
None == "<None>"
Missing == "<missing>"

\* variant of MODEL_CANDIDATES: most capable model first
CandidatesByCapability == <<"gpt-4.1", "gpt-4.1-mini", "gpt-4.1-nano", "gpt-3.5-turbo">>

\* app.py:34-39
MODEL_CANDIDATES == <<"gpt-4.1-nano", "gpt-4.1-mini", "gpt-3.5-turbo", "gpt-4.1">>

\* app.py:30, the default of ChatRequest.model
DEFAULT_MODEL == "gpt-4.1"

(***************************************************************************)
(* str.lower() and the `in` operator on strings, on ASCII text.            *)
(***************************************************************************)
UpperCase == "ABCDEFGHIJKLMNOPQRSTUVWXYZ"
LowerCase == "abcdefghijklmnopqrstuvwxyz"

\* upper-case letter -> its lower-case letter
LowerMap ==
    [c \in {SubSeq(UpperCase, k, k) : k \in 1..Len(UpperCase)} |->
        LET k == CHOOSE k \in 1..Len(UpperCase) : SubSeq(UpperCase, k, k) = c
        IN SubSeq(LowerCase, k, k)]

LowerChar(c) == IF c \in DOMAIN LowerMap THEN LowerMap[c] ELSE c

RECURSIVE Lower(_)
Lower(s) ==
    IF Len(s) = 0 THEN ""
    ELSE LowerChar(SubSeq(s, 1, 1)) \o Lower(SubSeq(s, 2, Len(s)))

\* needle in haystack
Contains(haystack, needle) ==
    \E k \in 1..(Len(haystack) + 1) :
        /\ k + Len(needle) - 1 <= Len(haystack)
        /\ SubSeq(haystack, k, k + Len(needle) - 1) = needle

(***************************************************************************)
(* The state of one request.                                               *)
(***************************************************************************)
NoRequest == [developer_message |-> None, user_message |-> None,
              model |-> None, api_key |-> None]

NewRequest(body) ==
    [ body           |-> body,       \* the JSON body as sent
      request        |-> NoRequest,  \* the ChatRequest, once validated
      pc             |-> "received",
      client         |-> None,       \* api_key of the OpenAI client
      i              |-> 1,          \* position of the loop in MODEL_CANDIDATES
      working_model  |-> None,
      last_exception |-> None,
      calls          |-> <<>>,       \* upstream calls issued, in order
      outcomes       |-> <<>>,       \* upstream: TRUE where calls[k] succeeded
      upstream_error |-> None,       \* upstream: error text of the latest reply
      chunks         |-> <<>>,       \* upstream: the deltas the stream delivered
      status         |-> 0,          \* HTTP status sent (0: none yet)
      detail         |-> None,       \* detail of the error response
      fragments      |-> <<>> ]      \* body fragments sent to the client

\* Pydantic: a required `str` field must be present and a string (app.py:28-31)
IsStr(v) == v # Missing /\ v # None

\* ChatRequest(BaseModel), app.py:27-31
ChatRequest(body) ==
    [ developer_message |-> body.developer_message,
      user_message      |-> body.user_message,
      model             |-> IF body.model = Missing THEN DEFAULT_MODEL ELSE body.model,
      api_key           |-> body.api_key ]

\* variant of ValidBody: api_key declared Optional[str] = None
ValidBodyOptionalKey(body) ==
    /\ IsStr(body.developer_message)
    /\ IsStr(body.user_message)
    /\ body.api_key # Missing => (IsStr(body.api_key) \/ body.api_key = None)

\* the required fields of ChatRequest, app.py:28-31
ValidBody(body) ==
    /\ IsStr(body.developer_message)
    /\ IsStr(body.user_message)
    /\ IsStr(body.api_key)

\* FastAPI validates the body before chat() runs (app.py:42-43); a body that
\* does not validate is answered 422 and chat() is never entered.
ValidateStep(s) ==
    IF ValidBody(s.body)
    THEN [s EXCEPT !.request = ChatRequest(s.body), !.pc = "accepted"]
    ELSE [s EXCEPT !.pc = "rejected", !.status = 422, !.detail = "validation error"]

\* app.py:46, and app.py:106-110 when the constructor raises
NewClientStep(s, o) ==
    IF o.ok
    THEN [s EXCEPT !.client = s.request.api_key, !.pc = "probing"]
    ELSE [s EXCEPT !.pc = "failed", !.status = 500, !.detail = o.error]

\* app.py:76-83
ErrorStatus(error_message) ==
    LET lower == Lower(error_message)
    IN IF Contains(error_message, "insufficient_quota") \/ Contains(lower, "quota")
       THEN 429
       ELSE IF Contains(error_message, "model_not_found")
       THEN 404
       ELSE IF Contains(lower, "authentication") \/ Contains(lower, "invalid_api_key")
       THEN 401
       ELSE 500

\* variant of AfterLoop: with no working model, fall back to the model the
\* caller asked for instead of raising
AfterLoopFallback(s) ==
    IF s.working_model = None
    THEN [s EXCEPT !.working_model = s.request.model, !.pc = "responding",
                   !.status = 200]
    ELSE [s EXCEPT !.pc = "responding", !.status = 200]

\* app.py:71-101: what chat() does once the probing loop is left
AfterLoop(s) ==
    IF s.working_model = None
    THEN LET error_message ==
                 IF s.last_exception # None THEN s.last_exception
                 ELSE "No models available"
         IN [s EXCEPT !.pc = "failed",
                      !.status = ErrorStatus(error_message),
                      !.detail = error_message]
    ELSE [s EXCEPT !.pc = "responding", !.status = 200]

\* app.py:55-61, the probe request
ProbeCall(s) ==
    [ api_key |-> s.client, model |-> MODEL_CANDIDATES[s.i], content |-> "test",
      max_tokens |-> "1", stream |-> FALSE ]

\* variant of RecordException: keep the first exception, not the last
RecordFirstException(s, error) ==
    IF s.last_exception = None THEN [s EXCEPT !.last_exception = error] ELSE s

\* app.py:65-66
RecordException(s, error) == [s EXCEPT !.last_exception = error]

\* variant of ProbeStep: the `break` of app.py:64 left out, so the loop goes
\* on to the remaining candidates after a success
ProbeStepNoBreak(s, o) ==
    LET called == [s EXCEPT !.calls = Append(@, ProbeCall(s)),
                            !.outcomes = Append(@, o.ok),
                            !.upstream_error = o.error]
        after == IF o.ok
                 THEN [called EXCEPT !.working_model = MODEL_CANDIDATES[s.i]]
                 ELSE RecordException(called, o.error)
        next == [after EXCEPT !.i = @ + 1]
    IN IF next.i <= Len(MODEL_CANDIDATES) THEN next ELSE AfterLoop(next)

\* app.py:52-68, one iteration of the loop (then app.py:71-101 if it is the last)
ProbeStep(s, o) ==
    LET called == [s EXCEPT !.calls = Append(@, ProbeCall(s)),
                            !.outcomes = Append(@, o.ok),
                            !.upstream_error = o.error]
    IN IF o.ok
       THEN AfterLoop([called EXCEPT !.working_model = MODEL_CANDIDATES[s.i]])
       ELSE LET next == [RecordException(called, o.error) EXCEPT !.i = @ + 1]
            IN IF next.i <= Len(MODEL_CANDIDATES) THEN next ELSE AfterLoop(next)

\* variant of StreamCall: the model and the developer message of the request
\* are passed on
StreamCallAsRequested(s) ==
    [ api_key |-> s.client,
      model |-> IF s.request.model # None THEN s.request.model ELSE s.working_model,
      content |-> s.request.developer_message \o "\n" \o s.request.user_message,
      max_tokens |-> None, stream |-> TRUE ]

\* app.py:87-93, the streaming request
StreamCall(s) ==
    [ api_key |-> s.client, model |-> s.working_model,
      content |-> s.request.user_message, max_tokens |-> None, stream |-> TRUE ]

\* variant of OpenStreamStep: the streaming call made in chat() itself, inside
\* its try block, before the StreamingResponse is returned
OpenStreamStepInHandler(s, o) ==
    LET called == [s EXCEPT !.calls = Append(@, StreamCall(s)),
                            !.outcomes = Append(@, o.ok),
                            !.upstream_error = o.error]
    IN IF o.ok THEN [called EXCEPT !.pc = "streaming"]
       ELSE [called EXCEPT !.pc = "failed", !.status = 500, !.detail = o.error]

\* app.py:87-93: the generator's first step, run by StreamingResponse after the
\* 200 response has started; an exception here ends the response.
OpenStreamStep(s, o) ==
    LET called == [s EXCEPT !.calls = Append(@, StreamCall(s)),
                            !.outcomes = Append(@, o.ok),
                            !.upstream_error = o.error]
    IN IF o.ok THEN [called EXCEPT !.pc = "streaming"]
       ELSE [called EXCEPT !.pc = "aborted"]

\* variant of NextChunkStep: `if chunk.choices[0].delta.content:`, a truth
\* test instead of `is not None`
NextChunkStepTruthy(s, item) ==
    IF item.kind = "chunk"
    THEN [s EXCEPT !.chunks = Append(@, item.content),
                   !.fragments = IF item.content # None /\ item.content # ""
                                 THEN Append(@, item.content) ELSE @]
    ELSE IF item.kind = "end"
    THEN [s EXCEPT !.pc = "done"]
    ELSE [s EXCEPT !.pc = "aborted", !.upstream_error = item.error]

\* app.py:96-98, one iteration of `for chunk in stream`
NextChunkStep(s, item) ==
    IF item.kind = "chunk"
    THEN [s EXCEPT !.chunks = Append(@, item.content),
                   !.fragments = IF item.content # None
                                 THEN Append(@, item.content) ELSE @]
    ELSE IF item.kind = "end"
    THEN [s EXCEPT !.pc = "done"]
    ELSE [s EXCEPT !.pc = "aborted", !.upstream_error = item.error]

\* variant of HealthStep: a health check that also pings the provider
HealthStepUpstream(h) ==
    [h EXCEPT !.responses = Append(@, [status |-> "ok"]),
              !.calls = Append(@, "models.list")]

\* app.py:113-115
HealthStep(h) == [h EXCEPT !.responses = Append(@, [status |-> "ok"])]

(***************************************************************************)
(* What the environment can send.                                          *)
(***************************************************************************)
Ok == [ok |-> TRUE, error |-> None]
Failure(text) == [ok |-> FALSE, error |-> text]

\* error texts of the provider, as the openai client renders them
ErrorTexts ==
    { "Error code: 429 - insufficient_quota",
      "Error code: 404 - model_not_found",
      "Error code: 401 - invalid_api_key",
      "Connection error." }

Deltas == {None, "", "Hello", ", ", "world"}

Chunk(content) == [kind |-> "chunk", content |-> content, error |-> None]
EndOfStream == [kind |-> "end", content |-> None, error |-> None]
StreamFault(text) == [kind |-> "fault", content |-> None, error |-> text]

\* words of generated error texts: the keywords of app.py:76-80 in several
\* cases, a near miss and a neutral word
Words ==
    { "quota", "Quota", "insufficient_quota", "model_not_found",
      "MODEL_NOT_FOUND", "Model_Not_Found", "authentication", "Authentication",
      "invalid_api_key", "INVALID_API_KEY", "quot", "error" }

RECURSIVE TextsOf(_)
TextsOf(n) ==
    IF n = 0 THEN {""}
    ELSE LET shorter == TextsOf(n - 1)
         IN shorter \cup {IF t = "" THEN w ELSE t \o " " \o w :
                             t \in shorter, w \in Words}

Messages == TextsOf(MaxWords)

(***************************************************************************)
(* Actions.                                                                *)
(***************************************************************************)
Validate(r) ==
    /\ req[r].pc = "received"
    /\ req' = [req EXCEPT ![r] = ValidateStep(req[r])]
    /\ UNCHANGED health

NewClient(r, o) ==
    /\ req[r].pc = "accepted"
    /\ req' = [req EXCEPT ![r] = NewClientStep(req[r], o)]
    /\ UNCHANGED health

Probe(r, o) ==
    /\ req[r].pc = "probing"
    /\ req' = [req EXCEPT ![r] = ProbeStep(req[r], o)]
    /\ UNCHANGED health

OpenStream(r, o) ==
    /\ req[r].pc = "responding"
    /\ req' = [req EXCEPT ![r] = OpenStreamStep(req[r], o)]
    /\ UNCHANGED health

NextChunk(r, item, limit) ==
    /\ req[r].pc = "streaming"
    /\ item.kind = "chunk" => Len(req[r].chunks) < limit
    /\ req' = [req EXCEPT ![r] = NextChunkStep(req[r], item)]
    /\ UNCHANGED health

HealthCheck ==
    /\ Len(health.responses) < MaxHealth
    /\ health' = HealthStep(health)
    /\ UNCHANGED req

NoHealth == [responses |-> <<>>, calls |-> <<>>]

(***************************************************************************)
(* Spec: one chat request against an arbitrary upstream, and health checks. *)
(***************************************************************************)
Bodies ==
    [ developer_message : {Missing, "Be brief"},
      user_message      : {Missing, "Hi"},
      model             : {Missing, None, "gpt-4o"},
      api_key           : {Missing, "sk-A"} ]

Replies == {Ok} \cup {Failure(t) : t \in ErrorTexts}

StreamItems ==
    {Chunk(c) : c \in Deltas} \cup {EndOfStream, StreamFault("Connection error.")}

Init ==
    /\ req \in [{1} -> {NewRequest(b) : b \in Bodies}]
    /\ health = NoHealth

Next ==
    \/ \E r \in DOMAIN req : Validate(r)
    \/ \E r \in DOMAIN req, o \in {Ok, Failure("Connection error.")} : NewClient(r, o)
    \/ \E r \in DOMAIN req, o \in Replies : Probe(r, o)
    \/ \E r \in DOMAIN req, o \in Replies : OpenStream(r, o)
    \/ \E r \in DOMAIN req, item \in StreamItems : NextChunk(r, item, MaxChunks)
    \/ HealthCheck

Spec == Init /\ [][Next]_vars

(***************************************************************************)
(* SpecTotalFailure: a credential for which no candidate answers.  Every   *)
(* probe fails; the error of the last candidate, the one chat() goes on to *)
(* classify, is any text of Messages, the earlier ones any of ErrorTexts.  *)
(***************************************************************************)
FailureTexts(i) == IF i < Len(MODEL_CANDIDATES) THEN ErrorTexts ELSE Messages

NextTotalFailure ==
    \/ \E r \in DOMAIN req : Validate(r)
    \/ \E r \in DOMAIN req, o \in {Ok, Failure("Connection error.")} : NewClient(r, o)
    \/ \E r \in DOMAIN req : \E t \in FailureTexts(req[r].i) : Probe(r, Failure(t))

SpecTotalFailure == Init /\ [][NextTotalFailure]_vars

(***************************************************************************)
(* SpecPair: two requests with the same api_key and user_message, any      *)
(* model and developer_message, handled side by side: at every step the    *)
(* upstream gives both the same reply.                                     *)
(***************************************************************************)
PairBodies ==
    [ developer_message : {"", "Be brief"},
      user_message      : {"Hi"},
      model             : {Missing, None, "gpt-4o", "gpt-3.5-turbo"},
      api_key           : {"sk-A"} ]

Both(pc) == \A r \in DOMAIN req : req[r].pc = pc

PairValidate ==
    /\ Both("received")
    /\ req' = [r \in DOMAIN req |-> ValidateStep(req[r])]
    /\ UNCHANGED health

PairNewClient(o) ==
    /\ Both("accepted")
    /\ req' = [r \in DOMAIN req |-> NewClientStep(req[r], o)]
    /\ UNCHANGED health

PairProbe(o) ==
    /\ Both("probing")
    /\ req' = [r \in DOMAIN req |-> ProbeStep(req[r], o)]
    /\ UNCHANGED health

PairOpenStream(o) ==
    /\ Both("responding")
    /\ req' = [r \in DOMAIN req |-> OpenStreamStep(req[r], o)]
    /\ UNCHANGED health

PairNextChunk(item) ==
    /\ Both("streaming")
    /\ item.kind = "chunk" => \A r \in DOMAIN req : Len(req[r].chunks) < MaxChunks
    /\ req' = [r \in DOMAIN req |-> NextChunkStep(req[r], item)]
    /\ UNCHANGED health

InitPair ==
    /\ req \in [{1, 2} -> {NewRequest(b) : b \in PairBodies}]
    /\ health = NoHealth

NextPair ==
    \/ PairValidate
    \/ \E o \in {Ok, Failure("Connection error.")} : PairNewClient(o)
    \/ \E o \in Replies : PairProbe(o)
    \/ \E o \in Replies : PairOpenStream(o)
    \/ \E item \in StreamItems : PairNextChunk(item)

SpecPair == InitPair /\ [][NextPair]_vars

(***************************************************************************)
(* SpecConc: two requests and health checks, interleaved at every upstream *)
(* interaction.  (One event loop runs chat() without interruption between  *)
(* two awaits, which allows fewer interleavings than these.)               *)
(***************************************************************************)
ConcBodies ==
    [ developer_message : {"Be brief"},
      user_message      : {"Hi"},
      model             : {Missing},
      api_key           : {Missing, "sk-A", "sk-B"} ]

ConcReplies == {Ok, Failure("Error code: 429 - insufficient_quota")}

ConcItems ==
    {Chunk("Hello"), Chunk(None), EndOfStream, StreamFault("Connection error.")}

InitConc ==
    /\ req \in [{1, 2} -> {NewRequest(b) : b \in ConcBodies}]
    /\ health = NoHealth

NextConc ==
    \/ \E r \in DOMAIN req : Validate(r)
    \/ \E r \in DOMAIN req : NewClient(r, Ok)
    \/ \E r \in DOMAIN req, o \in ConcReplies : Probe(r, o)
    \/ \E r \in DOMAIN req, o \in ConcReplies : OpenStream(r, o)
    \/ \E r \in DOMAIN req, item \in ConcItems : NextChunk(r, item, MaxConcChunks)
    \/ HealthCheck

SpecConc == InitConc /\ [][NextConc]_vars

(***************************************************************************)
(* Properties.                                                             *)
(***************************************************************************)
ProbeIdx(s) == {k \in 1..Len(s.calls) : ~s.calls[k].stream}
StreamIdx(s) == {k \in 1..Len(s.calls) : s.calls[k].stream}
FailedProbes(s) == {k \in ProbeIdx(s) : ~s.outcomes[k]}
AllFourFailed(s) == Cardinality(ProbeIdx(s)) = 4 /\ FailedProbes(s) = ProbeIdx(s)
Entered(s) == s.pc \notin {"received", "accepted", "rejected"}
LeftLoop(s) == Entered(s) /\ s.pc # "probing" /\ s.client # None
IsPrefix(a, b) == Len(a) <= Len(b) /\ SubSeq(b, 1, Len(a)) = a

RECURSIVE Join(_)
Join(seq) == IF seq = <<>> THEN "" ELSE Head(seq) \o Join(Tail(seq))

\* C1: no candidate is probed after one whose probe succeeded; the loop is
\* left only on a success or after the fourth probe; when the probe of
\* gpt-4.1-nano succeeds it is the only probe, and the streaming call is the
\* second upstream call.
C1_FirstSuccessWins ==
    \A r \in DOMAIN req :
        LET s == req[r]
        IN /\ \A j \in ProbeIdx(s), k \in ProbeIdx(s) : j < k => ~s.outcomes[j]
           /\ LeftLoop(s) =>
                 \/ \E k \in ProbeIdx(s) : s.outcomes[k]
                 \/ Cardinality(ProbeIdx(s)) = 4
           /\ (1 \in ProbeIdx(s) /\ s.outcomes[1]) =>
                 /\ s.calls[1].model = "gpt-4.1-nano"
                 /\ ProbeIdx(s) = {1}
                 /\ StreamIdx(s) \subseteq {2}

C1_Witness ==
    \E r \in DOMAIN req :
        /\ req[r].pc = "streaming"
        /\ req[r].outcomes = <<TRUE, TRUE>>
        /\ req[r].working_model = "gpt-4.1-nano"

\* C2: the k-th upstream call of a request is the probe of the k-th model of
\* gpt-4.1-nano, gpt-4.1-mini, gpt-3.5-turbo, gpt-4.1, issued only after the
\* probe before it failed; the streaming call comes after the probes and
\* names the earliest model whose probe succeeded; when only gpt-4.1
\* succeeds, four probes were made and gpt-4.1 is streamed from.
C2_ProbeOrderAndSelection ==
    \A r \in DOMAIN req :
        LET s == req[r]
            order == <<"gpt-4.1-nano", "gpt-4.1-mini", "gpt-3.5-turbo", "gpt-4.1">>
        IN /\ \A k \in ProbeIdx(s) :
                 /\ k <= 4
                 /\ s.calls[k].model = order[k]
                 /\ k > 1 => (k - 1 \in ProbeIdx(s) /\ ~s.outcomes[k - 1])
           /\ \A k \in StreamIdx(s) :
                 /\ k - 1 \in ProbeIdx(s)
                 /\ s.outcomes[k - 1]
                 /\ \A j \in 1..(k - 2) : ~s.outcomes[j]
                 /\ s.calls[k].model = order[k - 1]
                 /\ s.working_model = order[k - 1]
           /\ (StreamIdx(s) # {} /\ Cardinality(FailedProbes(s)) = 3) =>
                 /\ Cardinality(ProbeIdx(s)) = 4
                 /\ s.calls[5].model = "gpt-4.1"

C2_Witness ==
    \E r \in DOMAIN req :
        /\ req[r].outcomes = <<FALSE, FALSE, FALSE, TRUE, TRUE>>
        /\ req[r].calls[5].stream
        /\ req[r].calls[5].model = "gpt-4.1"

\* The classification as the specification words it: every keyword matched
\* without regard to case, quota before model_not_found before authentication.
ClaimedStatus(text) ==
    LET lower == Lower(text)
    IN IF Contains(lower, "insufficient_quota") \/ Contains(lower, "quota")
       THEN 429
       ELSE IF Contains(lower, "model_not_found")
       THEN 404
       ELSE IF Contains(lower, "authentication") \/ Contains(lower, "invalid_api_key")
       THEN 401
       ELSE 500

\* C3: when all four probes fail, the status is the case-insensitive
\* classification of the last error's text (429, else 404, else 401, else
\* 500).
C3_CaseInsensitiveClassification ==
    \A r \in DOMAIN req :
        AllFourFailed(req[r]) =>
            req[r].status = ClaimedStatus(req[r].upstream_error)

\* C3, where the code departs from it: only on a text that holds
\* "model_not_found" in another case and no form of "quota"; app.py:78
\* matches that keyword as written, so the text goes on to 401 or 500.
C3_DepartsOnlyOnModelNotFoundCase ==
    \A r \in DOMAIN req :
        AllFourFailed(req[r]) =>
            LET e == req[r].upstream_error
            IN \/ req[r].status = ClaimedStatus(e)
               \/ /\ Contains(Lower(e), "model_not_found")
                  /\ ~Contains(e, "model_not_found")
                  /\ ClaimedStatus(e) = 404
                  /\ req[r].status \in {401, 500}

\* C4: when all four probes fail, the detail is the text of the error the
\* last probe raised and the status is a function of that text alone; a last
\* error containing "quota" gives 429 with that text as the detail.
C4_DetailIsLastError ==
    \A r \in DOMAIN req :
        LET s == req[r]
        IN AllFourFailed(s) =>
              /\ s.pc = "failed"
              /\ s.calls[4].model = "gpt-4.1"
              /\ s.detail = s.upstream_error
              /\ s.status = ErrorStatus(s.upstream_error)
              /\ Contains(s.upstream_error, "quota") => s.status = 429

C4_Witness ==
    \E r \in DOMAIN req :
        /\ AllFourFailed(req[r])
        /\ req[r].status = 429
        /\ req[r].detail = "quota error"

\* C5: a request whose body lacks api_key or user_message is answered with a
\* client error (422) and never issues an upstream call or builds a client.
C5_ValidationBeforeNetwork ==
    \A r \in DOMAIN req :
        LET s == req[r]
        IN (s.body.api_key = Missing \/ s.body.user_message = Missing) =>
              /\ s.calls = <<>>
              /\ s.client = None
              /\ s.pc \in {"received", "rejected"}
              /\ s.pc = "rejected" => s.status = 422
              /\ s.pc = "received" => s.status = 0

C5_Witness ==
    \E r \in DOMAIN req :
        /\ req[r].body.api_key = Missing
        /\ req[r].body.user_message # Missing
        /\ req[r].pc = "rejected"
        /\ req[r].status = 422
        /\ req[r].calls = <<>>

\* C6 (as claimed): the fragments sent are the deltas of the chunks in
\* arrival order, those that are null or empty left out.
C6_EmptyFragmentsOmitted ==
    \A r \in DOMAIN req :
        req[r].fragments =
            SelectSeq(req[r].chunks, LAMBDA c : c # None /\ c # "")

\* C6 (amended): at every moment the fragments sent are the deltas of the
\* chunks received so far, in arrival order, one per chunk, only the null
\* deltas left out (an empty delta is sent as an empty fragment); the body is
\* the concatenation of the deltas.
C6_PassThrough ==
    \A r \in DOMAIN req :
        /\ req[r].fragments = SelectSeq(req[r].chunks, LAMBDA c : c # None)
        /\ Join(req[r].fragments) =
              Join(SelectSeq(req[r].chunks, LAMBDA c : c # None /\ c # ""))

C6_Witness ==
    \E r \in DOMAIN req :
        /\ req[r].pc = "done"
        /\ req[r].chunks = <<"Hello", ", ", "world">>
        /\ Join(req[r].fragments) = "Hello, world"

\* C7: a 401, 404, 429 or 500 response is sent only when all four probes
\* failed or the fault came before any probe, and never once a working model
\* is known; from then on the response is the 200 stream, which a failure of
\* the streaming call (at its opening or at a later chunk) only ends, the
\* fragments already sent left as they were.
C7_State(s) ==
    /\ s.status \in {401, 404, 429, 500} =>
          /\ s.pc = "failed"
          /\ s.working_model = None
          /\ StreamIdx(s) = {}
          /\ s.detail # None
          /\ AllFourFailed(s) \/ s.calls = <<>>
    /\ s.working_model # None => (s.status = 200 /\ s.detail = None)
    /\ s.pc = "aborted" =>
          (s.status = 200 /\ s.working_model # None /\ StreamIdx(s) # {})

C7_Step(s, t) ==
    s.status = 200 =>
        /\ t.status = 200
        /\ t.detail = None
        /\ IsPrefix(s.fragments, t.fragments)
        /\ t.pc = "aborted" => t.fragments = s.fragments

C7_StructuredErrorsOnlyFromProbing ==
    /\ [](\A r \in DOMAIN req : C7_State(req[r]))
    /\ [][\A r \in DOMAIN req : C7_Step(req[r], req'[r])]_vars

C7_Witness ==
    \E r \in DOMAIN req :
        /\ req[r].pc = "aborted"
        /\ req[r].status = 200
        /\ req[r].fragments = <<"Hello">>
        /\ req[r].outcomes = <<FALSE, TRUE, TRUE>>

\* C8: the phases of a request only advance (before probing, probing,
\* streaming, finished); calls are only ever added, and none after the
\* streaming call; there is at most one streaming call and it follows a
\* successful probe; a request that streams after k failed probes has issued
\* k+1 probes and one streaming call (2 to 5 calls), one whose four probes
\* failed has issued four probes and no streaming call.
Phase(s) ==
    IF s.pc \in {"received", "accepted"} THEN 0
    ELSE IF s.pc = "probing" THEN 1
    ELSE IF s.pc \in {"responding", "streaming"} THEN 2
    ELSE 3

C8_State(s) ==
    /\ Cardinality(StreamIdx(s)) <= 1
    /\ \A k \in StreamIdx(s) : \E j \in ProbeIdx(s) : j < k /\ s.outcomes[j]
    /\ \A k \in StreamIdx(s), j \in ProbeIdx(s) : j < k
    /\ s.pc \in {"streaming", "done", "aborted"} =>
          /\ Cardinality(StreamIdx(s)) = 1
          /\ Cardinality(ProbeIdx(s)) = Cardinality(FailedProbes(s)) + 1
          /\ Len(s.calls) \in 2..5
    /\ AllFourFailed(s) => (s.pc = "failed" /\ Len(s.calls) = 4)
    /\ (s.pc = "failed" /\ s.client # None) => AllFourFailed(s)

C8_Step(s, t) ==
    /\ Phase(t) >= Phase(s)
    /\ IsPrefix(s.calls, t.calls)
    /\ StreamIdx(s) # {} => t.calls = s.calls

C8_PhasesAndCallCounts ==
    /\ [](\A r \in DOMAIN req : C8_State(req[r]))
    /\ [][\A r \in DOMAIN req : C8_Step(req[r], req'[r])]_vars

C8_Witness ==
    \E r \in DOMAIN req :
        /\ req[r].pc = "done"
        /\ req[r].outcomes = <<FALSE, FALSE, TRUE, TRUE>>
        /\ Cardinality(ProbeIdx(req[r])) = 3
        /\ Cardinality(StreamIdx(req[r])) = 1

\* C9: two requests with the same api_key and user_message that get the same
\* upstream replies issue the same upstream calls and give the same response,
\* whatever their model and developer_message; every probe sends "test" and
\* the streaming call sends the user_message alone, to a candidate model.
Candidates == {MODEL_CANDIDATES[k] : k \in 1..Len(MODEL_CANDIDATES)}

SameReplies(s, t) ==
    /\ s.pc = t.pc
    /\ s.outcomes = t.outcomes
    /\ s.upstream_error = t.upstream_error
    /\ s.chunks = t.chunks

C10_State ==
    /\ \A k \in 1..Len(health.responses) : health.responses[k] = [status |-> "ok"]
    /\ health.calls = <<>>
    /\ \A r \in DOMAIN req : \A k \in 1..Len(req[r].calls) :
          req[r].calls[k].api_key = req[r].body.api_key
    /\ \A p \in DOMAIN req, q \in DOMAIN req :
          (Entered(req[p]) /\ Entered(req[q]) /\ SameReplies(req[p], req[q])) =>
              /\ req[p].working_model = req[q].working_model
              /\ req[p].status = req[q].status
              /\ req[p].fragments = req[q].fragments

C10_Step ==
    /\ health' # health => req' = req
    /\ \A p \in DOMAIN req, q \in DOMAIN req :
          (p # q /\ req'[p] # req[p]) => (req'[q] = req[q] /\ health' = health)

C10_HealthAndIndependence == [](C10_State) /\ [][C10_Step]_vars

C10_Witness ==
    /\ Len(health.responses) = MaxHealth
    /\ req[1].pc = "probing"
    /\ Len(req[1].calls) = 2
    /\ req[1].body.api_key = "sk-A"
    /\ req[2].pc = "streaming"
    /\ req[2].body.api_key = "sk-B"
    /\ req[2].working_model = "gpt-4.1-mini"

====
